---- MODULE Spec2Model ----
(***************************************************************************)
(* Worker-pool lifecycle manager of browser-orchestrator.                  *)
(*                                                                         *)
(* Two variants of the manager exist in the repository:                    *)
(*   "api"  : src/orchestrator/src/api.rs, a Restate virtual object        *)
(*            (#[restate_sdk::object], ObjectContext): the runtime runs at *)
(*            most one handler at a time per key; the Pool is two Vecs     *)
(*            stored under the key "pool_state"; side effects are wrapped  *)
(*            in ctx.run and journaled.                                    *)
(*   "back" : src/orchestrator/src/back.rs, a plain Restate service        *)
(*            (#[restate_sdk::service], Context): handlers of a service    *)
(*            run concurrently; the WorkerPool is two HashSets stored      *)
(*            under the key "pool"; nothing is wrapped in ctx.run.         *)
(* A deployment runs one variant; Init chooses it.                         *)
(*                                                                         *)
(* Modelling assumptions (all about collaborators outside the source):     *)
(*   - UUIDs are fresh: ctx.rand_uuid() is a function of the invocation,   *)
(*     Uuid::new_v4() never repeats.                                       *)
(*   - ctx.run records its result atomically with the effect.              *)
(*   - The OS port table is an input of each get_port call (any other      *)
(*     process may bind or release any port between two calls).            *)
(*   - State written by the program always deserializes.                   *)
(***************************************************************************)
EXTENDS Integers, Sequences, FiniteSets, TLC

(* ------------------------------ bounds --------------------------------- *)
\* number of spawn_worker invocations ever submitted
MaxSpawn == 2
\* number of handler crashes (each followed by a replay) in one behaviour
MaxCrash == 1

InvIds == 1..MaxSpawn

\* Session ids and users are opaque strings of which only equality matters: two
\* values make every spawn able to repeat or not repeat an id already in the Pool.
SessionIds == {"s1", "s2"}
Users == {"alice"}
NoId == ""

(* --------------------------- program constants ------------------------- *)
min_port_api == 3000
min_port_back == 1024
u16_MAX == 65535

(* Option<T>: None is the empty tuple, Some(x) the one-element tuple.      *)
None == <<>>
Some(x) == <<x>>
IsSome(o) == o # <<>>
Unwrap(o) == o[1]

VARIABLES
  variant,     \* "api" or "back": which manager is deployed
  pool_state,  \* api: Option<Pool> persisted under key "pool_state"
  pool,        \* back: Option<WorkerPool> persisted under key "pool"
  inv,         \* spawn_worker invocations: position, locals and journal
  running,     \* api: the invocation holding the object key (0: none)
  del,         \* back: the delete_session invocation between its read and write
  procs,       \* per invocation: PORT values of the worker processes started
  crashes,     \* number of crashes so far
  last,        \* outcome of the last invocation that returned
  probe        \* get_port calls made in sequence: the port table and the results

vars == <<variant, pool_state, pool, inv, running, del, procs, crashes, last, probe>>

(* ------------------------------ data model ----------------------------- *)
Session(id, worker_id, user) ==
  [id |-> id, available |-> TRUE, worker_id |-> worker_id, user |-> user]

BackSession(id, worker_id) ==
  [id |-> id, available |-> TRUE, worker_id |-> worker_id]

Worker(id, port) == [id |-> id, port |-> port, available |-> TRUE]

\* mutant of PoolDefault: the Pool made on first access is not empty
PoolDefault_Seeded ==
  [session_list |-> <<Session("s1", <<0, 0>>, "alice")>>, worker_list |-> <<>>]

\* Pool::default()
PoolDefault == [session_list |-> <<>>, worker_list |-> <<>>]

\* WorkerPool::default()
WorkerPoolDefault == [sessions |-> {}, workers |-> {}]

\* match ctx.get("pool_state") { Some(bytes) => from_slice, None => Pool::default() }
ReadPool(stored) == IF IsSome(stored) THEN Unwrap(stored) ELSE PoolDefault

\* ctx.get("pool").await.ok().flatten().unwrap_or_default()
ReadWorkerPool(stored) == IF IsSome(stored) THEN Unwrap(stored) ELSE WorkerPoolDefault

\* mutant of InsertFront: Vec::push(x)
InsertBack(list, x) == Append(list, x)

\* Vec::insert(0, x)
InsertFront(list, x) == <<x>> \o list

(* ---------------------------- port allocator --------------------------- *)
min_port == IF variant = "api" THEN min_port_api ELSE min_port_back
max_port == u16_MAX

\* The ports that can be free when get_port probes: every other port is held by
\* some process. max_port itself is a port the loop never probes.
FreeCandidates == {min_port, min_port + 1, max_port}

\* mutant of get_port: the scan keeps the last port that binds, not the first
get_port_Highest(free) ==
  LET binds == {p \in free : min_port <= p /\ p < max_port} IN
  IF binds = {} THEN None
  ELSE Some(CHOOSE p \in binds : \A q \in binds : q <= p)

\* mutant of get_port: the first port of the range is returned without a bind
get_port_NoBind(free) == Some(min_port)

\* for p in min_port..max_port (max_port excluded): the first p, ascending, that
\* binds; free: the ports that bind at probe time
get_port(free) ==
  LET binds == {p \in free : min_port <= p /\ p < max_port} IN
  IF binds = {} THEN None
  ELSE Some(CHOOSE p \in binds : \A q \in binds : p <= q)

\* ready_port.unwrap_or_default()
UnwrapOrDefault(o) == IF IsSome(o) THEN Unwrap(o) ELSE 0

(* ------------------------------ invocations ---------------------------- *)
NoBody == [wellformed |-> FALSE, id |-> NoId, user |-> ""]

IdleInv ==
  [pc |-> "idle", arg |-> None, ready_port |-> None, worker_id |-> <<>>,
   local |-> None, jproc |-> FALSE, jbody |-> None, pre |-> None]

\* what an invocation answered: kind is "ok", "terminal" (TerminalError) or "error"
\* (back.rs: Err(String)); id the session id; called: it sent an HTTP request to a
\* worker; port: the worker port it called (spawn_worker: the port it answered)
Outcome(op, id, kind, msg, called, port) ==
  [op |-> op, id |-> id, kind |-> kind, msg |-> msg, called |-> called, port |-> port]

\* no get_port call observed yet
NoProbe == [calls |-> 0, free |-> {}, held |-> FALSE, first |-> None, second |-> None]

Init ==
  /\ variant \in {"api", "back"}
  /\ probe = NoProbe
  /\ pool_state = None
  /\ pool = None
  /\ inv = [i \in InvIds |-> IdleInv]
  /\ running = 0
  /\ del = None
  /\ procs = [i \in InvIds |-> <<>>]
  /\ crashes = 0
  /\ last = Outcome("none", NoId, "ok", "", FALSE, 0)

(* ------------------------- spawn_worker, api.rs ------------------------ *)
\* the runtime accepts an invocation: an object key admits one at a time.
\* Invocations are numbered in the order they are accepted.
ApiInvoke(i) ==
  /\ variant = "api"
  /\ inv[i].pc = "idle"
  /\ \A j \in InvIds : j < i => inv[j].pc # "idle"
  /\ running = 0
  /\ running' = i
  /\ \E user \in Users :
       inv' = [inv EXCEPT ![i].pc = "start", ![i].arg = Some(user),
                          ![i].pre = pool_state]
  /\ UNCHANGED <<variant, probe, pool_state, pool, del, procs, crashes, last>>

\* the handler returned: its locals are dropped and its journal is retired
Returned(pc) == [IdleInv EXCEPT !.pc = pc]

\* the invocation ends with an error; the object key is released
Fail(i, kind, msg, called) ==
  /\ inv' = [inv EXCEPT ![i] = Returned("failed")]
  /\ running' = 0
  /\ last' = Outcome("spawn_worker", NoId, kind, msg, called, 0)

\* ctx.rand_uuid(): seeded by the invocation id, the same on every replay
rand_uuid(i) == <<i, 0>>

\* Uuid::new_v4(): random, new on every execution of the handler; n counts the
\* executions of invocation i
new_v4(i, n) == <<i, n>>

\* mutant of ApiSpawnStart: the worker process is not started
ApiSpawnStart_NoProcess(i) ==
  /\ variant = "api"
  /\ inv[i].pc = "start"
  /\ \E free \in SUBSET FreeCandidates :
       inv' = [inv EXCEPT ![i].pc = "read", ![i].ready_port = get_port(free),
                          ![i].worker_id = rand_uuid(i), ![i].jproc = TRUE]
  /\ UNCHANGED <<variant, probe, pool_state, pool, del, procs, running, last, crashes>>

\* api.rs 185-199: get_port(), ctx.run(start steel-browser), sleep, rand_uuid
ApiSpawnStart(i) ==
  /\ variant = "api"
  /\ inv[i].pc = "start"
  /\ \E free \in SUBSET FreeCandidates :
       LET ready_port == get_port(free) IN
       IF inv[i].jproc
       THEN \* replay: the journaled result of ctx.run is reused
            /\ inv' = [inv EXCEPT ![i].pc = "read", ![i].ready_port = ready_port,
                                   ![i].worker_id = rand_uuid(i)]
            /\ UNCHANGED <<procs, running, last>>
       ELSE \/ /\ procs' = [procs EXCEPT ![i] = Append(@, UnwrapOrDefault(ready_port))]
               /\ inv' = [inv EXCEPT ![i].pc = "read", ![i].ready_port = ready_port,
                                      ![i].worker_id = rand_uuid(i), ![i].jproc = TRUE]
               /\ UNCHANGED <<running, last>>
            \/ /\ Fail(i, "terminal", "Error starting steel-browser", FALSE)
               /\ UNCHANGED procs
  /\ UNCHANGED <<variant, probe, pool_state, pool, del, crashes>>

\* mutant of ApiSpawnRead: the Pool is persisted as soon as the Worker is inserted
ApiSpawnRead_Persist(i) ==
  /\ variant = "api"
  /\ inv[i].pc = "read"
  /\ LET p == ReadPool(pool_state)
         worker == Worker(inv[i].worker_id, inv[i].ready_port)
         local == [p EXCEPT !.worker_list = InsertFront(@, worker)]
     IN /\ pool_state' = Some(local)
        /\ IF IsSome(worker.port)
           THEN /\ inv' = [inv EXCEPT ![i].pc = "create", ![i].local = Some(local)]
                /\ UNCHANGED <<running, last>>
           ELSE Fail(i, "terminal", "Error fetching worker port", FALSE)
  /\ UNCHANGED <<variant, probe, pool, del, procs, crashes>>

\* mutant of ApiSpawnRead: the failure on a missing port saves the Pool it modified
ApiSpawnRead_SaveOnNoPort(i) ==
  /\ variant = "api"
  /\ inv[i].pc = "read"
  /\ LET p == ReadPool(pool_state)
         worker == Worker(inv[i].worker_id, inv[i].ready_port)
         local == [p EXCEPT !.worker_list = InsertFront(@, worker)]
     IN IF IsSome(worker.port)
        THEN /\ inv' = [inv EXCEPT ![i].pc = "create", ![i].local = Some(local)]
             /\ UNCHANGED <<pool_state, running, last>>
        ELSE /\ pool_state' = Some(local)
             /\ Fail(i, "terminal", "Error fetching worker port", FALSE)
  /\ UNCHANGED <<variant, probe, pool, del, procs, crashes>>

\* api.rs 201-215: read the Pool, insert the Worker in the local copy, need a port
ApiSpawnRead(i) ==
  /\ variant = "api"
  /\ inv[i].pc = "read"
  /\ LET p == ReadPool(pool_state)
         worker == Worker(inv[i].worker_id, inv[i].ready_port)
         local == [p EXCEPT !.worker_list = InsertFront(@, worker)]
     IN IF IsSome(worker.port)
        THEN /\ inv' = [inv EXCEPT ![i].pc = "create", ![i].local = Some(local)]
             /\ UNCHANGED <<running, last>>
        ELSE Fail(i, "terminal", "Error fetching worker port", FALSE)
  /\ UNCHANGED <<variant, probe, pool_state, pool, del, procs, crashes>>

\* the bodies a worker can answer POST /sessions with
Bodies(user) ==
  {NoBody} \cup {[wellformed |-> TRUE, id |-> sid, user |-> user] : sid \in SessionIds}

\* api.rs 216-233: ctx.run(POST /sessions), the body journaled
ApiSpawnCreate(i) ==
  /\ variant = "api"
  /\ inv[i].pc = "create"
  /\ IF IsSome(inv[i].jbody)
        THEN /\ inv' = [inv EXCEPT ![i].pc = "write"]
             /\ UNCHANGED <<running, last>>
        ELSE \/ \E body \in Bodies(Unwrap(inv[i].arg)) :
                  /\ inv' = [inv EXCEPT ![i].pc = "write", ![i].jbody = Some(body)]
                  /\ UNCHANGED <<running, last>>
             \/ Fail(i, "terminal", "Failed to create session", TRUE)
             \/ Fail(i, "terminal", "Failed to read response body", TRUE)
  /\ UNCHANGED <<variant, probe, pool_state, pool, del, procs, crashes>>

\* api.rs 234-248: parse the body, insert the Session, persist the Pool
ApiSpawnWrite(i) ==
  /\ variant = "api"
  /\ inv[i].pc = "write"
  /\ LET parsed == Unwrap(inv[i].jbody)
         worker_port == Unwrap(inv[i].ready_port)
         session == Session(parsed.id, inv[i].worker_id, parsed.user)
         p == Unwrap(inv[i].local)
     IN IF parsed.wellformed
        THEN /\ pool_state' = Some([p EXCEPT !.session_list = InsertFront(@, session)])
             /\ inv' = [inv EXCEPT ![i] = Returned("done")]
             /\ running' = 0
             /\ last' = Outcome("spawn_worker", parsed.id, "ok", "", TRUE, worker_port)
        ELSE /\ Fail(i, "terminal", "Invalid JSON response", TRUE)
             /\ UNCHANGED pool_state
  /\ UNCHANGED <<variant, probe, pool, del, procs, crashes>>

\* the handler's process dies mid-invocation; the runtime re-invokes the handler
\* from its first line with the journal kept (and, for an object, the key held)
Crash(i) ==
  /\ inv[i].pc \in {"read", "create", "write"}
  /\ crashes < MaxCrash
  /\ crashes' = crashes + 1
  /\ inv' = [inv EXCEPT ![i].pc = "start", ![i].ready_port = None,
                         ![i].worker_id = <<>>, ![i].local = None]
  /\ UNCHANGED <<variant, probe, pool_state, pool, running, del, procs, last>>

(* -------------------- the lookup chain of api.rs ------------------------ *)
\* iter().find(..) on a Vec: the index of the first match, 0 when there is none
FindSession(list, session_id) ==
  IF \E k \in 1..Len(list) : list[k].id = session_id
  THEN CHOOSE k \in 1..Len(list) :
         /\ list[k].id = session_id
         /\ \A m \in 1..(k - 1) : list[m].id # session_id
  ELSE 0

FindWorker(list, worker_id) ==
  IF \E k \in 1..Len(list) : list[k].id = worker_id
  THEN CHOOSE k \in 1..Len(list) :
         /\ list[k].id = worker_id
         /\ \A m \in 1..(k - 1) : list[m].id # worker_id
  ELSE 0

\* mutant of LookupChain: the port is taken with unwrap_or_default, not checked
LookupChain_NoPortCheck(p, session_id) ==
  LET si == FindSession(p.session_list, session_id) IN
  IF si = 0
  THEN [msg |-> "Error fetching session from session_list", port |-> 0, sid |-> NoId]
  ELSE LET session == p.session_list[si]
           wi == FindWorker(p.worker_list, session.worker_id)
       IN IF wi = 0
          THEN [msg |-> "Error fetching session_worker from worker_list",
                port |-> 0, sid |-> NoId]
          ELSE [msg |-> "", port |-> UnwrapOrDefault(p.worker_list[wi].port),
                sid |-> session.id]

\* api.rs 255-278 (the same in health_check, status_check, delete_session):
\* session by id, its worker by worker_id, the worker's port; msg "" on success
LookupChain(p, session_id) ==
  LET si == FindSession(p.session_list, session_id) IN
  IF si = 0
  THEN [msg |-> "Error fetching session from session_list", port |-> 0, sid |-> NoId]
  ELSE LET session == p.session_list[si]
           wi == FindWorker(p.worker_list, session.worker_id)
       IN IF wi = 0
          THEN [msg |-> "Error fetching session_worker from worker_list",
                port |-> 0, sid |-> NoId]
          ELSE LET worker == p.worker_list[wi] IN
               IF ~IsSome(worker.port)
               THEN [msg |-> "Error fetching worker port", port |-> 0, sid |-> NoId]
               ELSE [msg |-> "", port |-> Unwrap(worker.port), sid |-> session.id]

\* the lookup chain, then one ctx.run(HTTP call to the worker); the Pool is not written
ApiForward(op, session_id) ==
  /\ variant = "api"
  /\ running = 0
  /\ LET r == LookupChain(ReadPool(pool_state), session_id)
     IN IF r.msg # ""
        THEN last' = Outcome(op, session_id, "terminal", r.msg, FALSE, 0)
        ELSE \/ last' = Outcome(op, session_id, "ok", "", TRUE, r.port)
             \/ last' = Outcome(op, session_id, "terminal", "Failed to send request",
                                TRUE, r.port)
             \/ last' = Outcome(op, session_id, "terminal",
                                "Failed to read response body", TRUE, r.port)
  /\ UNCHANGED <<variant, probe, pool, inv, running, del, procs, crashes>>

ApiHealthCheck(session_id) ==
  /\ ApiForward("health_check", session_id)
  /\ UNCHANGED pool_state

ApiStatusCheck(session_id) ==
  /\ ApiForward("status_check", session_id)
  /\ UNCHANGED pool_state

\* mutant of ApiGetSession: the handler saves the Pool it read
ApiGetSession_SavesPool(session_id) ==
  /\ ApiForward("get_session", session_id)
  /\ pool_state' = Some(ReadPool(pool_state))

ApiGetSession(session_id) ==
  /\ ApiForward("get_session", session_id)
  /\ UNCHANGED pool_state

\* mutant of ApiDeleteSession: a forwarded delete also drops the Session
ApiDeleteSession_Evicts(session_id) ==
  /\ ApiForward("delete_session", session_id)
  /\ LET p == ReadPool(pool_state) IN
     IF LookupChain(p, session_id).msg = ""
     THEN pool_state' =
            Some([p EXCEPT !.session_list = SelectSeq(@, LAMBDA s : s.id # session_id)])
     ELSE UNCHANGED pool_state

\* "This does not manage the worker state (worker remains undeleted)"
ApiDeleteSession(session_id) ==
  /\ ApiForward("delete_session", session_id)
  /\ UNCHANGED pool_state

(* ------------------------------- back.rs ------------------------------- *)
\* back.rs 49-71: a new invocation (or, at "start", the replay of a crashed one):
\* get_port(), start steel-browser, Uuid::new_v4(); none of them journaled
BackSpawnStart(i) ==
  /\ variant = "back"
  /\ \/ inv[i].pc = "start"
     \/ /\ inv[i].pc = "idle"
        /\ \A j \in InvIds : j < i => inv[j].pc # "idle"
  /\ \E session_id \in IF inv[i].pc = "idle" THEN SessionIds ELSE {Unwrap(inv[i].arg)} :
     \E free \in SUBSET FreeCandidates :
       LET ready_port == get_port(free) IN
       IF ~IsSome(ready_port)
       THEN /\ Fail(i, "error", "No available ports", FALSE)
            /\ UNCHANGED procs
       ELSE \/ /\ procs' = [procs EXCEPT ![i] = Append(@, Unwrap(ready_port))]
               /\ inv' = [inv EXCEPT ![i].pc = "read", ![i].arg = Some(session_id),
                                      ![i].ready_port = ready_port,
                                      ![i].worker_id = new_v4(i, Len(procs[i]) + 1)]
               /\ UNCHANGED <<running, last>>
            \/ /\ Fail(i, "error", "Failed to create browser session", FALSE)
               /\ UNCHANGED procs
  /\ UNCHANGED <<variant, probe, pool_state, pool, del, crashes>>

\* back.rs 74-78: read the WorkerPool, HashSet::insert the Worker and the Session
BackSpawnRead(i) ==
  /\ variant = "back"
  /\ inv[i].pc = "read"
  /\ LET p == ReadWorkerPool(pool)
         worker == Worker(inv[i].worker_id, inv[i].ready_port)
         session == BackSession(Unwrap(inv[i].arg), inv[i].worker_id)
         local == [sessions |-> p.sessions \cup {session},
                   workers |-> p.workers \cup {worker}]
     IN inv' = [inv EXCEPT ![i].pc = "write", ![i].local = Some(local)]
  /\ UNCHANGED <<variant, probe, pool_state, pool, running, del, procs, crashes, last>>

\* back.rs 81-86: ctx.set("pool", pool), Ok
BackSpawnWrite(i) ==
  /\ variant = "back"
  /\ inv[i].pc = "write"
  /\ pool' = inv[i].local
  /\ inv' = [inv EXCEPT ![i] = Returned("done")]
  /\ last' = Outcome("spawn_worker", Unwrap(inv[i].arg), "ok", "", FALSE,
                     Unwrap(inv[i].ready_port))
  /\ UNCHANGED <<variant, probe, pool_state, running, del, procs, crashes>>

\* back.rs 89-96: Ok(Some(session)) or Ok(None); msg tells which
BackGetSession(session_id) ==
  /\ variant = "back"
  /\ LET p == ReadWorkerPool(pool)
         found == \E s \in p.sessions : s.id = session_id
     IN last' = Outcome("get_session", session_id, "ok",
                        IF found THEN "Some" ELSE "None", FALSE, 0)
  /\ UNCHANGED <<variant, probe, pool_state, pool, inv, running, del, procs, crashes>>

\* mutant of Evict: the Worker is evicted, the Session is left behind
Evict_KeepSession(p, session) ==
  [sessions |-> p.sessions,
   workers |-> {w \in p.workers : w.id # session.worker_id}]

\* back.rs 103-104: pool.sessions.remove(&session); pool.workers.retain(..)
Evict(p, session) ==
  [sessions |-> p.sessions \ {session},
   workers |-> {w \in p.workers : w.id # session.worker_id}]

\* back.rs 98-104: read; a match (any one: HashSet order) is removed from the local
\* copy with its worker; without a match the handler returns Ok(()) at once
BackDeleteRead(session_id) ==
  /\ variant = "back"
  /\ ~IsSome(del)
  /\ LET p == ReadWorkerPool(pool)
         matches == {s \in p.sessions : s.id = session_id}
     IN IF matches = {}
        THEN /\ last' = Outcome("delete_session", session_id, "ok", "absent", FALSE, 0)
             /\ UNCHANGED del
        ELSE /\ \E session \in matches :
                  del' = Some([id |-> session_id, session |-> session,
                               local |-> Evict(p, session)])
             /\ UNCHANGED last
  /\ UNCHANGED <<variant, probe, pool_state, pool, inv, running, procs, crashes>>

\* back.rs 105-108: ctx.set("pool", pool), Ok(())
BackDeleteWrite ==
  /\ variant = "back"
  /\ IsSome(del)
  /\ pool' = Some(Unwrap(del).local)
  /\ last' = Outcome("delete_session", Unwrap(del).id, "ok", "removed", FALSE, 0)
  /\ del' = None
  /\ UNCHANGED <<variant, probe, pool_state, inv, running, procs, crashes>>

(* ---------------------------- specification ---------------------------- *)
ApiCrash(i) == variant = "api" /\ Crash(i)

BackCrash(i) == variant = "back" /\ Crash(i)

NextApi ==
  \/ \E i \in InvIds : ApiInvoke(i)
  \/ \E i \in InvIds : ApiSpawnStart(i)
  \/ \E i \in InvIds : ApiSpawnRead(i)
  \/ \E i \in InvIds : ApiSpawnCreate(i)
  \/ \E i \in InvIds : ApiSpawnWrite(i)
  \/ \E i \in InvIds : ApiCrash(i)
  \/ \E session_id \in SessionIds : ApiHealthCheck(session_id)
  \/ \E session_id \in SessionIds : ApiStatusCheck(session_id)
  \/ \E session_id \in SessionIds : ApiGetSession(session_id)
  \/ \E session_id \in SessionIds : ApiDeleteSession(session_id)

NextBack ==
  \/ \E i \in InvIds : BackSpawnStart(i)
  \/ \E i \in InvIds : BackSpawnRead(i)
  \/ \E i \in InvIds : BackSpawnWrite(i)
  \/ \E i \in InvIds : BackCrash(i)
  \/ \E session_id \in SessionIds : BackGetSession(session_id)
  \/ \E session_id \in SessionIds : BackDeleteRead(session_id)
  \/ BackDeleteWrite

Next == NextApi \/ NextBack

\* either variant deployed
Spec == Init /\ [][Next]_vars

\* the variant main.rs builds
InitApi == Init /\ variant = "api"

SpecApi == InitApi /\ [][NextApi]_vars

(* ------------- the read handlers of api.rs over any stored Pool --------- *)
\* health_check, status_check, get_session and delete_session are functions of the
\* value stored under "pool_state" and the session id. ctx.get deserializes any
\* value of type Pool, so they are exercised over every Pool of bounded size:
\* Sessions whose worker_id names no Worker and Workers with port None included.
\* MaxLen: the number of entries (Sessions and Workers together) of such a Pool
MaxLen == 3

SeqsOfLen(S, n) == [1..n -> S]

WorkerIds == {rand_uuid(1), rand_uuid(2)}

LookupPools ==
  UNION {
    {[session_list |-> sl, worker_list |-> wl] :
       sl \in SeqsOfLen({Session(id, w, u) :
                           id \in SessionIds, w \in WorkerIds, u \in Users}, n),
       wl \in UNION {SeqsOfLen({Worker(w, port) : w \in WorkerIds,
                        port \in {None, Some(min_port_api), Some(min_port_api + 1)}}, m) :
                     m \in 0..(MaxLen - n)}} :
    n \in 0..MaxLen}

InitLookup ==
  /\ variant = "api"
  /\ probe = NoProbe
  /\ pool_state \in {Some(p) : p \in LookupPools}
  /\ pool = None
  /\ inv = [i \in InvIds |-> IdleInv]
  /\ running = 0
  /\ del = None
  /\ procs = [i \in InvIds |-> <<>>]
  /\ crashes = 0
  /\ last = Outcome("none", NoId, "ok", "", FALSE, 0)

NextLookup ==
  \/ \E session_id \in SessionIds : ApiHealthCheck(session_id)
  \/ \E session_id \in SessionIds : ApiStatusCheck(session_id)
  \/ \E session_id \in SessionIds : ApiGetSession(session_id)
  \/ \E session_id \in SessionIds : ApiDeleteSession(session_id)

SpecLookup == InitLookup /\ [][NextLookup]_vars

(* ------------------ the port allocator over any port table -------------- *)
\* get_port is a function of the OS port table at the time of the call. It is
\* exercised over every table in which the ports that can bind are among: the port
\* below the range, the first MaxPorts ports of the range, the last port the loop
\* probes, and max_port itself.
MaxPorts == 2

ProbeCandidates ==
  {min_port - 1} \cup (min_port..(min_port + MaxPorts - 1)) \cup {max_port - 1, max_port}

\* a first call of get_port
PortFirst ==
  /\ probe.calls = 0
  /\ \E free \in SUBSET ProbeCandidates :
       probe' = [calls |-> 1, free |-> free, held |-> FALSE,
                 first |-> get_port(free), second |-> None]
  /\ UNCHANGED <<variant, pool_state, pool, inv, running, del, procs, crashes, last>>

\* a second call, after the first: held tells whether a listener holds the port the
\* first call returned (TcpListener::bind then fails on it)
PortSecond ==
  /\ probe.calls = 1
  /\ \E held \in BOOLEAN :
     \E free \in SUBSET (ProbeCandidates \
                           (IF held /\ IsSome(probe.first)
                            THEN {Unwrap(probe.first)} ELSE {})) :
       probe' = [probe EXCEPT !.calls = 2, !.free = free, !.held = held,
                              !.second = get_port(free)]
  /\ UNCHANGED <<variant, pool_state, pool, inv, running, del, procs, crashes, last>>

NextPort == PortFirst \/ PortSecond

SpecPort == Init /\ [][NextPort]_vars

(* -------------------------------- Gateway ------------------------------- *)
\* api.rs 371-545: every Gateway handler sends the request to the runtime's ingress
\* and answers with the body it reads; it never looks at the HTTP status of the
\* ingress response. o: the outcome of the Manager invocation; sent, read: whether
\* send() and text() succeeded. A handler returning Ok(String) answers 200.
ApiGateway(o, sent, read) ==
  IF ~sent THEN [status |-> 500, body |-> "Failed to send request"]
  ELSE IF ~read THEN [status |-> 500, body |-> "Failed to read response"]
  ELSE [status |-> 200, body |-> o.msg]

\* back.rs 177-236: the Gateway calls the Manager through the client; Err(e) is
\* mapped to 500, get_session's Ok(None) to 404, every other Ok to 200
BackGateway(o) ==
  IF o.kind # "ok" THEN [status |-> 500, body |-> o.msg]
  ELSE IF o.op = "get_session" /\ o.msg = "None"
       THEN [status |-> 404, body |-> "Session not found"]
  ELSE IF o.op = "delete_session" THEN [status |-> 200, body |-> "Session deleted"]
  ELSE [status |-> 200, body |-> o.msg]

\* the answer of the Gateway handler that forwarded the invocation with outcome o
Gateway(o, sent, read) ==
  IF variant = "api" THEN ApiGateway(o, sent, read) ELSE BackGateway(o)

(* ------------------------- views of the stored Pool --------------------- *)
\* the Sessions and Workers of the persisted Pool of the deployed variant, with
\* their multiplicity: one element per list position (api) or set member (back)
SessionsOf(ps, wp) ==
  IF variant = "api"
  THEN {<<k, ReadPool(ps).session_list[k]>> : k \in 1..Len(ReadPool(ps).session_list)}
  ELSE {<<0, x>> : x \in ReadWorkerPool(wp).sessions}

WorkersOf(ps, wp) ==
  IF variant = "api"
  THEN {<<k, ReadPool(ps).worker_list[k]>> : k \in 1..Len(ReadPool(ps).worker_list)}
  ELSE {<<0, x>> : x \in ReadWorkerPool(wp).workers}

StoredSessions == SessionsOf(pool_state, pool)
StoredWorkers == WorkersOf(pool_state, pool)

(* ================================ C1 ==================================== *)
\* C1: in every reachable persisted Pool, of either variant and after any sequence
\* of invocations (successful, failed, crashed and replayed), every Session's
\* worker_id is the id of exactly one Worker of the same Pool.
C1_SessionWorkerResolves ==
  \A s \in StoredSessions :
    Cardinality({w \in StoredWorkers : w[2].id = s[2].worker_id}) = 1

\* back.rs: a delete_session has evicted a Session and its Worker while another
\* Session stays; api.rs is covered by the same formula
C1_Witness ==
  /\ variant = "back"
  /\ last.op = "delete_session"
  /\ last.msg = "removed"
  /\ StoredSessions # {}

(* ================================ C2 ==================================== *)
\* C2 (as claimed): in every reachable persisted Pool no two Sessions share an id
\* and no two Workers share an id.
C2_UniqueIds ==
  /\ \A s, t \in StoredSessions : s[2].id = t[2].id => s = t
  /\ \A w, x \in StoredWorkers : w[2].id = x[2].id => w = x

(* ================================ C3 ==================================== *)
\* a list with its k-th element taken out
Without(list, k) == SubSeq(list, 1, k - 1) \o SubSeq(list, k + 1, Len(list))

\* C3 (as claimed): the step in which a spawn_worker invocation succeeds changes the
\* persisted Pool by exactly one Worker whose id no Worker had and exactly one
\* Session, every other member kept as it was, and the new Session's worker_id is
\* the new Worker's id.
C3_SpawnAddsOnePair ==
  [][\A i \in InvIds :
       (inv[i].pc = "write" /\ inv'[i].pc = "done") =>
         IF variant = "api"
         THEN LET p == ReadPool(pool_state)
                  q == ReadPool(pool_state')
              IN \E k \in 1..Len(q.worker_list), m \in 1..Len(q.session_list) :
                   /\ Without(q.worker_list, k) = p.worker_list
                   /\ Without(q.session_list, m) = p.session_list
                   /\ \A n \in 1..Len(p.worker_list) :
                        p.worker_list[n].id # q.worker_list[k].id
                   /\ q.session_list[m].worker_id = q.worker_list[k].id
         ELSE LET p == ReadWorkerPool(pool)
                  q == ReadWorkerPool(pool')
              IN \E w \in q.workers \ p.workers, s \in q.sessions \ p.sessions :
                   /\ q.workers = p.workers \cup {w}
                   /\ q.sessions = p.sessions \cup {s}
                   /\ \A x \in p.workers : x.id # w.id
                   /\ s.worker_id = w.id]_vars

(* ================================ C4 ==================================== *)
\* C4: in api.rs, the step in which a spawn_worker invocation fails (no port,
\* process start failure, session-create transport failure, unreadable or malformed
\* session-create response) leaves the persisted Pool equal to the Pool persisted
\* when the invocation was accepted.
C4_FailedSpawnLeavesPool ==
  [][\A i \in InvIds :
       (inv[i].pc # "failed" /\ inv'[i].pc = "failed") =>
         pool_state' = inv[i].pre]_vars

\* a spawn has failed on a malformed session-create response, after its Worker was
\* inserted in the local copy, over a Pool that an earlier spawn had populated
C4_Witness ==
  /\ variant = "api"
  /\ last.op = "spawn_worker"
  /\ last.kind = "terminal"
  /\ last.msg = "Invalid JSON response"
  /\ IsSome(pool_state)
  /\ \E i \in InvIds : inv[i].pc = "failed"

(* ================================ C5 ==================================== *)
\* C5 (as claimed): invocations on the pool key are serialized: at no time do two
\* spawn_worker invocations both hold a Pool they have read and not yet written.
C5_Serialized ==
  \A i, j \in InvIds :
    (IsSome(inv[i].local) /\ IsSome(inv[j].local)) => i = j

(* ================================ C6 ==================================== *)
\* C6 (as claimed): over any number of crashes and replays, a spawn_worker
\* invocation starts at most one worker process.
C6_OneProcessPerInvocation ==
  \A i \in InvIds : Len(procs[i]) <= 1

(* ================================ C7 ==================================== *)
\* C7 (as claimed): a delete_session whose id matches no Session of the Pool it
\* reads ends with an error outcome and leaves the persisted Pool unchanged.
C7_DeleteUnknownIsError ==
  [][\A session_id \in SessionIds :
       ( /\ ApiDeleteSession(session_id) \/ BackDeleteRead(session_id)
         /\ \A s \in StoredSessions : s[2].id # session_id )
       => /\ last'.op = "delete_session"
          /\ last'.kind # "ok"
          /\ pool_state' = pool_state
          /\ pool' = pool]_vars

(* ================================ C8 ==================================== *)
\* C8: in api.rs, a delete_session whose id passes the lookup chain leaves the
\* persisted Pool unchanged, and a get_session for the same id that follows a
\* forwarded delete_session is forwarded too, to the port the delete was sent to.
C8_DeleteKeepsPool ==
  [][\A session_id \in SessionIds :
       /\ ( /\ ApiDeleteSession(session_id)
            /\ LookupChain(ReadPool(pool_state), session_id).msg = "" )
          => /\ pool_state' = pool_state
             /\ FindSession(ReadPool(pool_state').session_list, session_id) # 0
             /\ last'.called
       /\ ( /\ last.op = "delete_session"
            /\ last.id = session_id
            /\ last.called
            /\ ApiGetSession(session_id) )
          => /\ last'.op = "get_session"
             /\ last'.called
             /\ last'.port = last.port]_vars

\* a delete_session on a known id has been forwarded and answered; its Session is
\* still found
C8_Witness ==
  /\ variant = "api"
  /\ last.op = "delete_session"
  /\ last.kind = "ok"
  /\ FindSession(ReadPool(pool_state).session_list, last.id) # 0

(* ================================ C9 ==================================== *)
\* C9 (as claimed): in back.rs, the write of a delete_session on a known id leaves
\* the Pool without the Session it found, evicts no Worker that a remaining Session
\* references, and leaves no Session with that id: get_session then answers None.
C9_DeleteEvicts ==
  [][BackDeleteWrite =>
       LET q == ReadWorkerPool(pool')
           p == ReadWorkerPool(pool)
       IN /\ Unwrap(del).session \notin q.sessions
          /\ \A w \in p.workers \ q.workers :
               \A s \in q.sessions : s.worker_id # w.id
          /\ \A s \in q.sessions : s.id # Unwrap(del).id]_vars

(* ================================ C10 =================================== *)
\* the three conditions of the claim, read off the Pool without the lookup chain:
\* the first Session with the id, and the first Worker with that Session's worker_id
NoSession(p, session_id) ==
  \A k \in 1..Len(p.session_list) : p.session_list[k].id # session_id

TheSession(p, session_id) ==
  p.session_list[CHOOSE k \in 1..Len(p.session_list) :
                   /\ p.session_list[k].id = session_id
                   /\ \A m \in 1..(k - 1) : p.session_list[m].id # session_id]

NoWorker(p, worker_id) ==
  \A k \in 1..Len(p.worker_list) : p.worker_list[k].id # worker_id

TheWorker(p, worker_id) ==
  p.worker_list[CHOOSE k \in 1..Len(p.worker_list) :
                  /\ p.worker_list[k].id = worker_id
                  /\ \A m \in 1..(k - 1) : p.worker_list[m].id # worker_id]

LookupFails(p, session_id) ==
  \/ NoSession(p, session_id)
  \/ NoWorker(p, TheSession(p, session_id).worker_id)
  \/ TheWorker(p, TheSession(p, session_id).worker_id).port = None

\* C10: a get_session, delete_session, health_check or status_check whose id matches
\* no Session, or whose Session's Worker is not in the Pool, or whose Worker has no
\* port, ends with a terminal error without an HTTP call; an HTTP call is made only
\* when all three lookups succeed, and then to that Worker's port.
C10_LookupBeforeCall ==
  [][\A session_id \in SessionIds :
       ( \/ ApiGetSession(session_id)
         \/ ApiDeleteSession(session_id)
         \/ ApiHealthCheck(session_id)
         \/ ApiStatusCheck(session_id) )
       => LET p == ReadPool(pool_state) IN
          /\ LookupFails(p, session_id) => (last'.kind = "terminal" /\ ~last'.called)
          /\ last'.called =>
               /\ ~LookupFails(p, session_id)
               /\ last'.port =
                    Unwrap(TheWorker(p, TheSession(p, session_id).worker_id).port)]_vars

\* a status_check has ended on a Worker without port, and one on a Session whose
\* Worker is missing is possible in the same Pool
C10_Witness ==
  /\ last.op = "status_check"
  /\ last.msg = "Error fetching worker port"
  /\ last.kind = "terminal"
  /\ ~last.called
  /\ \E session_id \in SessionIds :
       /\ ~NoSession(ReadPool(pool_state), session_id)
       /\ NoWorker(ReadPool(pool_state),
                   TheSession(ReadPool(pool_state), session_id).worker_id)

(* ================================ C11 =================================== *)
\* C11 (as claimed): the step of spawn_worker in which get_port reports no free port
\* starts no worker process, and when the invocation fails there it fails with a
\* terminal error.
C11_NoPortNoProcess ==
  [][\A i \in InvIds :
       ( /\ inv[i].pc = "start"
         /\ \/ inv'[i].pc = "read" /\ inv'[i].ready_port = None
            \/ inv'[i].pc = "failed" /\ last'.msg = "No available ports" )
       => /\ procs' = procs
          /\ inv'[i].pc = "failed" => last'.kind = "terminal"]_vars

(* ================================ C12 =================================== *)
\* the failures of an HTTP exchange with a worker
TransportMsgs ==
  {"Failed to create session", "Failed to read response body", "Failed to send request"}

\* C12 (as claimed): an invocation that ended on a failure to send an HTTP request
\* to a worker or to read the response body ended with a retryable error, not a
\* terminal one.
C12_TransportRetryable ==
  (last.called /\ last.msg \in TransportMsgs) => last.kind # "terminal"

(* ================================ C13 =================================== *)
\* the Manager found no Session for the id of a get_session
AbsentSession(o) ==
  /\ o.op = "get_session"
  /\ o.msg \in {"Error fetching session from session_list", "None"}

\* C13 (as claimed): the Gateway handler that forwarded an invocation answers 404
\* when a get_session found no Session, 500 for any other failed invocation, and
\* so never 200 for a failed invocation.
C13_GatewayMapsFailure ==
  \A read \in BOOLEAN :
    LET g == Gateway(last, TRUE, read) IN
    /\ AbsentSession(last) => g.status = 404
    /\ (last.kind # "ok" /\ ~AbsentSession(last)) => g.status = 500

(* ================================ C14 =================================== *)
\* C14 (as claimed): a get_session, health_check, status_check or delete_session
\* for id S that is forwarded goes to the port of the Worker of every spawn_worker
\* that returned S: each Session with id S in the Pool was written by such a spawn,
\* with the worker_id of its Worker.
C14_ForwardedToSpawningWorker ==
  [][\A session_id \in SessionIds :
       ( /\ \/ ApiGetSession(session_id)
            \/ ApiDeleteSession(session_id)
            \/ ApiHealthCheck(session_id)
            \/ ApiStatusCheck(session_id)
         /\ last'.called )
       => LET p == ReadPool(pool_state) IN
          \A k \in 1..Len(p.session_list) :
            p.session_list[k].id = session_id =>
              TheWorker(p, p.session_list[k].worker_id).port = Some(last'.port)]_vars

(* ================================ C15 =================================== *)
\* the ports get_port probes: min_port..max_port, max_port excluded
InRange(p) == min_port <= p /\ p < max_port

\* the result of the latest get_port call
Latest == IF probe.calls = 2 THEN probe.second ELSE probe.first

\* C15: get_port returns a port that binds, inside min_port..max_port (max_port
\* excluded), not above any port of that range that binds, and returns None exactly
\* when no port of that range binds.
C15_LowestFreeInRange ==
  probe.calls > 0 =>
    /\ IsSome(Latest) =>
         /\ Unwrap(Latest) \in probe.free
         /\ InRange(Unwrap(Latest))
         /\ \A q \in probe.free : InRange(q) => Unwrap(Latest) <= q
    /\ Latest = None <=> ~\E q \in probe.free : InRange(q)

\* get_port has skipped a port that binds below the range and returned a port that
\* is not the lowest of the table
C15_Witness ==
  /\ probe.calls = 1
  /\ IsSome(probe.first)
  /\ (min_port - 1) \in probe.free
  /\ \E q \in probe.free : q > Unwrap(probe.first)

(* ================================ C16 =================================== *)
\* C16: of two get_port calls in sequence, the second does not return the port the
\* first returned when a listener holds that port at the time of the second call.
C16_HeldPortNotReturned ==
  (probe.calls = 2 /\ probe.held /\ IsSome(probe.first)) => probe.second # probe.first

\* both calls returned a port while the first one's port was held
C16_Witness ==
  /\ probe.calls = 2
  /\ probe.held
  /\ IsSome(probe.first)
  /\ IsSome(probe.second)

(* ================================ C17 =================================== *)
\* the PORT the worker process behind a Worker id was started with: api.rs starts
\* one process per invocation, back.rs one per execution of the handler
ProcessPort(worker_id) ==
  IF variant = "api" THEN procs[worker_id[1]][1]
  ELSE procs[worker_id[1]][worker_id[2]]

\* C17 (as claimed): the port stored on every Worker of the persisted Pool is the
\* port the worker process of its spawn_worker invocation was started on, replays
\* after a crash included.
C17_StoredPortIsProcessPort ==
  \A w \in StoredWorkers : w[2].port = Some(ProcessPort(w[2].id))

(* ================================ C18 =================================== *)
\* the spawn_worker invocation that made a Worker id: invocations are numbered in
\* the order the object key admits them, which is the order they complete in
SpawnOf(worker_id) == worker_id[1]

\* both lists run from the latest spawn to the earliest
NewestFirst(p) ==
  /\ \A k, m \in 1..Len(p.worker_list) :
       k < m => SpawnOf(p.worker_list[k].id) > SpawnOf(p.worker_list[m].id)
  /\ \A k, m \in 1..Len(p.session_list) :
       k < m => SpawnOf(p.session_list[k].worker_id) > SpawnOf(p.session_list[m].worker_id)

\* the latest spawn that wrote a Session with the id
LatestSpawn(p, session_id) ==
  CHOOSE i \in InvIds :
    /\ \E k \in 1..Len(p.session_list) :
         p.session_list[k].id = session_id /\ SpawnOf(p.session_list[k].worker_id) = i
    /\ \A k \in 1..Len(p.session_list) :
         p.session_list[k].id = session_id => SpawnOf(p.session_list[k].worker_id) <= i

\* C18: in api.rs, worker_list and session_list of every persisted Pool are ordered
\* newest-first, and a forwarded get_session, delete_session, health_check or
\* status_check goes to the Worker of the most recently spawned Session with the id.
C18_NewestFirstLookup ==
  [][/\ NewestFirst(ReadPool(pool_state'))
     /\ \A session_id \in SessionIds :
          ( /\ \/ ApiGetSession(session_id)
               \/ ApiDeleteSession(session_id)
               \/ ApiHealthCheck(session_id)
               \/ ApiStatusCheck(session_id)
            /\ last'.called )
          => LET p == ReadPool(pool_state) IN
             \E k \in 1..Len(p.worker_list) :
               /\ SpawnOf(p.worker_list[k].id) = LatestSpawn(p, session_id)
               /\ p.worker_list[k].port = Some(last'.port)]_vars

\* a get_session was forwarded for an id that two spawns have written, on Workers
\* with different ports
C18_Witness ==
  /\ variant = "api"
  /\ last.op = "get_session"
  /\ last.called
  /\ LET p == ReadPool(pool_state) IN
     /\ Len(p.session_list) = 2
     /\ p.session_list[1].id = last.id
     /\ p.session_list[2].id = last.id
     /\ p.worker_list[1].port # p.worker_list[2].port

(* ================================ C19 =================================== *)
\* C19 (as claimed): no two Workers of a persisted Pool have the same port.
C19_UniquePorts ==
  \A w, x \in StoredWorkers : w[2].port = x[2].port => w = x

(* ================================ C20 =================================== *)
\* the four handlers that run the lookup chain
ForwardOps == {"get_session", "delete_session", "health_check", "status_check"}

\* C20: every Worker of every reachable persisted Pool has a port, and no
\* get_session, delete_session, health_check or status_check has ended on the
\* 'worker has no port' error.
C20_PortAlwaysAssigned ==
  /\ \A w \in StoredWorkers : IsSome(w[2].port)
  /\ ~(last.op \in ForwardOps /\ last.msg = "Error fetching worker port")

\* a spawn_worker found no port, its Worker being in the local copy only, while the
\* persisted Pool holds Workers
C20_Witness ==
  /\ last.op = "spawn_worker"
  /\ last.msg = "Error fetching worker port"
  /\ StoredWorkers # {}

(* ================================ C21 =================================== *)
\* a spawn_worker invocation returns successfully in this step
SpawnWrites == \E i \in InvIds : inv[i].pc = "write" /\ inv'[i].pc = "done"

\* C21: a get_session, health_check or status_check step, successful or failed,
\* leaves the persisted Pool as it was; the persisted Pool changes only in the step
\* in which a spawn_worker returns successfully or, in back.rs, in the write of a
\* delete_session, and then by one write of the whole Pool.
C21_ReadHandlersKeepPool ==
  [][/\ \A session_id \in SessionIds :
          ( \/ ApiGetSession(session_id)
            \/ ApiHealthCheck(session_id)
            \/ ApiStatusCheck(session_id)
            \/ BackGetSession(session_id) )
          => (pool_state' = pool_state /\ pool' = pool)
     /\ pool_state' # pool_state => (variant = "api" /\ SpawnWrites /\ IsSome(pool_state'))
     /\ pool' # pool =>
          (variant = "back" /\ (SpawnWrites \/ BackDeleteWrite) /\ IsSome(pool'))]_vars

\* a health_check that reached its worker has failed over a Pool that holds Sessions
C21_Witness ==
  /\ last.op = "health_check"
  /\ last.kind = "terminal"
  /\ last.called
  /\ StoredSessions # {}

(* ================================ C22 =================================== *)
\* the worker processes started so far: one element per process
Started(ps) == UNION {{<<i, k>> : k \in 1..Len(ps[i])} : i \in InvIds}

\* C22: in api.rs, no step takes a started worker process back; the persisted Pool
\* never holds more Workers than processes were started; and a spawn_worker that
\* failed has no Worker in the Pool, whether or not its process was started.
C22_NoRollback ==
  [][/\ Started(procs) \subseteq Started(procs')
     /\ Cardinality(WorkersOf(pool_state', pool')) <= Cardinality(Started(procs'))
     /\ \A i \in InvIds :
          inv'[i].pc = "failed" =>
            \A w \in WorkersOf(pool_state', pool') : SpawnOf(w[2].id) # i]_vars

\* a spawn_worker failed on its session-create call after its process was started:
\* fewer Workers in the Pool than processes started
C22_Witness ==
  /\ variant = "api"
  /\ last.op = "spawn_worker"
  /\ last.msg = "Failed to create session"
  /\ \E i \in InvIds : inv[i].pc = "failed" /\ Len(procs[i]) = 1
  /\ Cardinality(StoredWorkers) < Cardinality(Started(procs))

(* ================================ C23 =================================== *)
\* nothing is persisted under the pool key
NothingStored == IF variant = "api" THEN pool_state = None ELSE pool = None

\* the spawn_worker invocations that returned successfully
Done == {i \in InvIds : inv[i].pc = "done"}

\* C23: while nothing is persisted under the pool key, every get_session,
\* delete_session, health_check and status_check has ended as on an empty Pool: in
\* api.rs with the session-not-found terminal error and without an HTTP call, in
\* back.rs with no Session found; and when the first spawn_worker has returned
\* successfully the persisted Pool holds exactly one Worker and one Session.
C23_LazyEmptyPool ==
  /\ (NothingStored /\ last.op \in ForwardOps) =>
       IF variant = "api"
       THEN /\ last.kind = "terminal"
            /\ last.msg = "Error fetching session from session_list"
            /\ ~last.called
       ELSE last.msg \in {"None", "absent"}
  /\ (last.op = "spawn_worker" /\ last.kind = "ok" /\ Cardinality(Done) = 1) =>
       /\ Cardinality(StoredWorkers) = 1
       /\ Cardinality(StoredSessions) = 1

\* the first successful spawn_worker on a key without state has just returned
C23_Witness ==
  /\ last.op = "spawn_worker"
  /\ last.kind = "ok"
  /\ Cardinality(Done) = 1
  /\ \A i \in InvIds : inv[i].pc \in {"done", "idle"}
  /\ Cardinality(StoredSessions) = 1

====
